---- MODULE Spec2Model ----
(***************************************************************************)
(* Model of Gripper_Interface (src/Gripper_Interface.py): a single-threaded *)
(* TCP client for a Robotiq 2F-85 gripper, together with the device on the  *)
(* other end of the socket.                                                 *)
(*                                                                          *)
(* One client instance is modelled.  Every blocking call of the client      *)
(* (a frame written by sendall, a line awaited in recv) is one step; `pc`   *)
(* is the position of the single thread inside the public operation `op`.   *)
(* Time is counted in ticks of 50 ms and only inside activate()'s deadline  *)
(* loop, the one place where the code reads the clock.                      *)
(***************************************************************************)
EXTENDS Integers, Sequences, FiniteSets, TLC

----------------------------------------------------------------------------
(* Bounds of the model *)

\* response lines of earlier GETs the socket may still hold
MaxStale == 1
\* ticks a recv() that succeeds may take
MaxLatency == 1
\* saturation of the history counters nconn and ncloses
CountCap == 2
\* saturation of the count of polls in one polling loop
MaxPolls == 4

(* Program constants, in ticks of 50 ms *)

\* time.sleep(0.05) after every sendall
PACING == 1
\* time.sleep(0.1) between two STA polls
POLL == 2
\* "> 10" seconds since start_time
DEADLINE == 200

\* caller inputs for position, speed and force (in and out of [0,255])
Inputs == {-5, 100, 400}
\* positions move() is called with: those, and the two ends of the range
Positions == Inputs \cup {0, 255}
\* no blocking move has just returned
NoMove == << >>

VARIABLES
    pc,             \* position of the client's thread
    op,             \* public operation running, or the last one run
    res,            \* outcome of the last finished operation
    got,            \* value returned by the latest GET of the operation
    gotFresh,       \* that value was parsed from the answer to that very GET
    lastRead,       \* how the latest _read_response() of the operation ended,
                    \* and the line it returned
    polls,          \* the polling loop the operation is in: the values its
                    \* GETs of one parameter read in a row (repeats dropped)
                    \* and how many such GETs there were
    elapsed,        \* time.time() - start_time at activate()'s latest
                    \* deadline test, in ticks
    args,           \* move()'s locals position, speed, force, block
    sock,           \* self._client_socket: "None", "open", "unconn"
    hooks,          \* atexit.register(self.disconnect) has run
    nconn,          \* connections established and not yet close()d
    ncloses,        \* close() calls on the current socket object
    peer,           \* device end of the connection: "none", "up", "closed"
    rx,             \* response lines written by the device, not yet read
    lastFrame,      \* the latest frame the operation wrote to the socket
    noop,           \* the last connect()/disconnect() found nothing to do
    moved,          \* <<target>> of the last blocking move that returned,
                    \* while nothing but queries followed it
    twice,          \* the operation is a reset() called right after a
                    \* reset() that returned normally
    dev,            \* registers of the gripper
    cfg             \* what kind of device and network this run faces

ctlVars  == <<pc, op, res, elapsed>>
connVars == <<sock, nconn, ncloses, peer, rx>>
vars == <<pc, op, res, got, gotFresh, lastRead, polls, elapsed, args, sock, hooks,
          nconn, ncloses, peer, rx, lastFrame, noop, moved, twice, dev, cfg>>

----------------------------------------------------------------------------
(* Frames and response lines *)

NoFrame == [cmd |-> "none", var |-> "none", val |-> 0]
\* f"SET {var.upper()} {int(val)}\n" : the value is transmitted as given
SetFrame(var, val) == [cmd |-> "SET", var |-> var, val |-> val]
\* f"GET {var.upper()}\n"
GetFrame(var) == [cmd |-> "GET", var |-> var, val |-> 0]

\* a response line is the sequence of its whitespace-separated tokens.
\* GET converts parts[1] with int() and looks at no other token, so a token
\* is kept as the integer it spells, or as a word that spells none
IntTok(n) == [isInt |-> TRUE,  n |-> n]
WordTok   == [isInt |-> FALSE, n |-> 0]
\* "<VAR> <value>", and lines GET cannot parse
GoodLine(v) == <<WordTok, IntTok(v)>>
BadLines == { << >>, <<WordTok>>, <<WordTok, WordTok>> }

\* defective variant: the value is passed on as given
Clamp_omitted(x) == x

\* defective variant: max(x, 0), the upper end is not enforced
Clamp_low_only(x) == IF x < 0 THEN 0 ELSE x

\* min(max(x, 0), 255)
Clamp(x) == IF x < 0 THEN 0 ELSE IF x > 255 THEN 255 ELSE x

Min(a, b) == IF a < b THEN a ELSE b

----------------------------------------------------------------------------
(* The gripper: the registers named in the class docstring *)

\* OBJ: 0 = moving, 2 = stopped on an object, 3 = at rest
Moving(d) == d.gto = 1 /\ d.pos # d.pre /\ ~d.blk

\* the value the device answers to "GET var"
DevRead(d, var) ==
    CASE var = "ACT" -> d.act
      [] var = "STA" -> d.sta
      [] var = "PRE" -> d.pre
      [] var = "POS" -> d.pos
      [] var = "OBJ" -> IF d.blk THEN 2 ELSE IF Moving(d) THEN 0 ELSE 3
      [] OTHER -> 0

\* the device keeps a requested position inside its range 0-255
Saturate(v) == IF v < 0 THEN 0 ELSE IF v > 255 THEN 255 ELSE v

\* the effect of "SET var val" on the registers
DevOnSet(d, var, val) ==
    CASE var = "ACT" /\ val = 0 ->
            IF cfg = "noreset" THEN d
            ELSE IF cfg = "lagging" THEN [d EXCEPT !.act = 0, !.gto = 0]
            ELSE [d EXCEPT !.act = 0, !.sta = 0, !.gto = 0]
      [] var = "ACT" /\ val # 0 -> [d EXCEPT !.act = 1]
      [] var = "GTO" -> [d EXCEPT !.gto = IF val = 0 THEN 0 ELSE 1]
      [] var = "POS" -> [d EXCEPT !.pre = Saturate(val), !.blk = FALSE]
      [] OTHER -> d

\* lines the device may answer to "GET var"
Responses(var) ==
    {GoodLine(DevRead(dev, var))} \cup (IF cfg = "garbled" THEN BadLines ELSE {})

----------------------------------------------------------------------------
(* Control flow of the client *)

Terminal == {"exited", "killed"}
NoArgs == [position |-> 0, block |-> TRUE]

\* the running public operation ends with outcome r
Leave(r) == /\ pc' = "idle"
            /\ res' = r
            /\ elapsed' = 0
            /\ UNCHANGED op

\* defective variant: the failure is caught and the failing call repeated
RaiseAt_retried(e, t) == UNCHANGED <<pc, op, res, elapsed>>

\* an exception e leaves the running operation at time t: caught by
\* __init__'s "except Exception" during auto-initialization, propagated
\* to the owner otherwise
RaiseAt(e, t) ==
    /\ pc' = IF op = "init" THEN "init_except" ELSE "idle"
    /\ res' = e
    /\ elapsed' = t
    /\ UNCHANGED op

Raise(e) == RaiseAt(e, 0)

\* continue at `next` after dt ticks; "idle" is a normal return
Goto(next, dt) ==
    IF next = "idle" THEN Leave("ok")
    ELSE /\ pc' = next
         /\ elapsed' = elapsed + dt
         /\ UNCHANGED <<op, res>>

----------------------------------------------------------------------------
(* TransportChannel *)

\* defective variant: the handle is closed but not cleared
disconnect_keeps_handle ==
    IF sock # "None"
    THEN /\ ncloses' = Min(ncloses + 1, CountCap)
         /\ nconn' = IF sock = "open" /\ nconn > 0 THEN nconn - 1 ELSE nconn
         /\ peer' = "none"
         /\ rx' = << >>
         /\ UNCHANGED sock
    ELSE UNCHANGED connVars

disconnect ==
    IF sock # "None"
    THEN /\ sock' = "None"
         /\ ncloses' = Min(ncloses + 1, CountCap)
         /\ nconn' = IF sock = "open" THEN nconn - 1 ELSE nconn
         /\ peer' = "none"
         /\ rx' = << >>
    ELSE UNCHANGED connVars

ConnectOutcomes == {"ok", "refused", "timeout", "oserror"}

\* what socket.connect() does to a fresh socket object, by outcome o
Handshake(o) ==
    CASE o = "ok" ->
            /\ sock' = "open"
            /\ peer' = "up"
            /\ rx' = << >>
            /\ ncloses' = 0
            /\ nconn' = Min(nconn + 1, CountCap)
            /\ hooks' = TRUE
      [] o \in {"refused", "timeout"} ->
            /\ sock' = "None"
            /\ UNCHANGED <<nconn, ncloses, peer, rx, hooks>>
      [] OTHER ->
            /\ sock' = "unconn"
            /\ ncloses' = 0
            /\ UNCHANGED <<nconn, peer, rx, hooks>>

\* defective variant: no "already connected" guard
connect_unguarded(o) == Handshake(o)

\* defective variant: the release action is never registered
connect_unregistered(o) ==
    IF sock # "None" THEN UNCHANGED <<connVars, hooks>>
    ELSE IF o = "ok"
         THEN /\ sock' = "open"
              /\ peer' = "up"
              /\ rx' = << >>
              /\ ncloses' = 0
              /\ nconn' = Min(nconn + 1, CountCap)
              /\ UNCHANGED hooks
         ELSE Handshake(o)

connect(o) ==
    IF sock # "None" THEN UNCHANGED <<connVars, hooks>>
    ELSE Handshake(o)

\* the exception connect() ends with, "ok" if none
ConnectResult(o) ==
    IF sock # "None" \/ o = "ok" THEN "ok"
    ELSE IF o \in {"refused", "timeout"} THEN "ConnectionError"
    ELSE "OSError"

----------------------------------------------------------------------------
(* CommandProtocol *)

\* defective variant: the frame is written whatever the handle holds
send_command_unguarded(frame, next) ==
    /\ lastFrame' = frame
    /\ Goto(next, 0)
    /\ UNCHANGED <<connVars, dev>>

\* _send_command(frame) for a SET, then continue at `next`: the device
\* changes its registers and answers nothing
send_command(frame, next) ==
    IF sock = "None"
    THEN /\ Raise("ConnectionError")
         /\ UNCHANGED <<connVars, dev, lastFrame>>
    ELSE IF sock = "unconn"
    THEN /\ Raise("OSError")
         /\ UNCHANGED <<connVars, dev, lastFrame>>
    ELSE \/ /\ peer = "up"
            /\ lastFrame' = frame
            /\ dev' = DevOnSet(dev, frame.var, frame.val)
            /\ Goto(next, 0)
            /\ UNCHANGED connVars
         \/ /\ peer = "closed"
            /\ Raise("ConnectionError")
            /\ UNCHANGED <<connVars, dev, lastFrame>>
         \/ /\ peer = "closed"
            /\ lastFrame' = frame
            /\ Goto(next, 0)
            /\ UNCHANGED <<connVars, dev>>

\* SET(var, val)
SET(var, val, next) == send_command(SetFrame(var, val), next)

\* defective variant: the second token is not converted
ParseOk_unconverted(toks) == Len(toks) >= 2

\* response.split(), len(parts) < 2, int(parts[1])
ParseOk(toks) == Len(toks) >= 2 /\ toks[2].isInt
ParseVal(toks) == toks[2].n

\* what the socket holds once the device has seen "GET var": the lines
\* still unread, then the answer (none from a lossy or a closed peer)
Buffers(var) ==
    IF peer = "up"
    THEN {Append(rx, l) : l \in Responses(var)} \cup (IF cfg = "lossy" THEN {rx} ELSE {})
    ELSE {rx}

\* the ways _read_response() and GET's parsing can end on the buffer q.
\* A recv() that returns the head line leaves the rest unread (the chunk
\* held that line only) or drops it (the chunk held everything, and the
\* rest of the chunk dies with the local variable `buffer`).  A recv() may
\* also time out before the data arrives; the data then stays in the socket.
read_response(q) ==
    (IF q # << >>
     THEN {[kind |-> IF ParseOk(Head(q)) THEN "val" ELSE "err",
            val |-> IF ParseOk(Head(q)) THEN ParseVal(Head(q)) ELSE 0,
            err |-> "ValueError", sent |-> TRUE, rx |-> r,
            line |-> Head(q)] : r \in {Tail(q), << >>}}
     ELSE {})
    \cup
    (IF (q = << >> /\ peer = "up") \/ (cfg = "late" /\ q # << >> /\ Len(q) <= MaxStale)
     THEN {[kind |-> "err", val |-> 0, err |-> "ResponseTimeout", sent |-> TRUE, rx |-> q,
            line |-> << >>]}
     ELSE {})
    \cup
    (IF q = << >> /\ peer = "closed"
     THEN {[kind |-> "err", val |-> 0, err |-> "ConnectionError", sent |-> TRUE, rx |-> q,
            line |-> << >>]}
     ELSE {})

\* no _read_response() has ended yet; no polling loop is under way
NoRead == [kind |-> "none", toks |-> << >>]
NoPolls == [seen |-> << >>, n |-> 0]

\* how the read with outcome o ended: with a line (which GET may fail to
\* parse), with a timeout, or with the connection closed
ReadAs(o) ==
    [kind |-> IF o.kind = "val" \/ o.err = "ValueError" THEN "line" ELSE o.err,
     toks |-> o.line]

\* GET(var) has read v: one more poll of the loop if the previous frame
\* was the same GET, the first poll of a loop otherwise
Polled(var, v) ==
    IF lastFrame = GetFrame(var) /\ polls.n > 0
    THEN [seen |-> IF polls.seen[Len(polls.seen)] = v THEN polls.seen
                   ELSE Append(polls.seen, v),
          n |-> Min(polls.n + 1, MaxPolls)]
    ELSE [seen |-> <<v>>, n |-> 1]

\* ticks a recv() that returns a line may have taken
Latencies == IF cfg = "slow" THEN 0..MaxLatency ELSE {0}

\* GET(var): the frame is written, one line is read and parsed into got',
\* and the caller continues with K, which sets pc, res and elapsed.
GET(var, K) ==
    IF sock = "None"
    THEN /\ Raise("ConnectionError")
         /\ UNCHANGED <<connVars, dev, lastFrame, got, gotFresh, lastRead, polls>>
    ELSE IF sock = "unconn"
    THEN /\ Raise("OSError")
         /\ UNCHANGED <<connVars, dev, lastFrame, got, gotFresh, lastRead, polls>>
    ELSE \/ /\ peer = "closed"
            /\ Raise("ConnectionError")
            /\ UNCHANGED <<connVars, dev, lastFrame, got, gotFresh, lastRead, polls>>
         \/ \E q \in Buffers(var) : \E o \in read_response(q) :
               /\ lastFrame' = GetFrame(var)
               /\ rx' = o.rx
               /\ UNCHANGED <<sock, nconn, ncloses, peer, dev>>
               /\ lastRead' = ReadAs(o)
               /\ IF o.kind = "err"
                  THEN /\ Raise(o.err)
                       /\ UNCHANGED <<got, gotFresh, polls>>
                  ELSE /\ got' = o.val
                       /\ gotFresh' = (rx = << >>)
                       /\ polls' = Polled(var, o.val)
                       /\ K

----------------------------------------------------------------------------
(* Initial state: the fields __init__ assigns before it branches on auto_init *)

DevInit == {[act |-> IF s = 0 THEN 0 ELSE 1, sta |-> s, gto |-> 0,
             pre |-> 0, pos |-> 0, blk |-> FALSE] : s \in {0, 1, 3}}

\* the device and network a run faces: "ideal" is fault-free; "noreset"
\* ignores SET ACT 0; "slow" never completes its activation and answers
\* with some latency; "late" may answer after the read timeout; "garbled"
\* may answer a malformed line; "lossy" may not answer at all and may
\* close the connection; "gripping" may find an object between its fingers;
\* "lagging" takes its status to Reset some time after it has seen ACT = 0
Kinds == {"ideal", "noreset", "slow", "late", "garbled", "lossy", "gripping",
          "lagging"}

Init ==
    /\ pc = "new"
    /\ op = "none"
    /\ res = "none"
    /\ got = 0
    /\ gotFresh = TRUE
    /\ lastRead = NoRead
    /\ polls = NoPolls
    /\ elapsed = 0
    /\ args = NoArgs
    /\ sock = "None"
    /\ hooks = FALSE
    /\ nconn = 0
    /\ ncloses = 0
    /\ peer = "none"
    /\ rx = << >>
    /\ lastFrame = NoFrame
    /\ noop = FALSE
    /\ moved = NoMove
    /\ twice = FALSE
    /\ dev \in DevInit
    /\ cfg \in Kinds

clientLocals == <<got, gotFresh, lastRead, polls, args, noop, moved, twice>>
wireVars == <<lastFrame, dev>>

----------------------------------------------------------------------------
(* __init__ *)

Construct ==
    /\ pc = "new"
    /\ \E auto_init \in BOOLEAN :
          IF auto_init
          THEN /\ pc' = "init_connect"
               /\ op' = "init"
          ELSE /\ pc' = "idle"
               /\ op' = "new"
    /\ UNCHANGED <<res, got, gotFresh, lastRead, polls, elapsed, args, noop, moved, twice, connVars,
                   hooks, wireVars, cfg>>

InitConnect ==
    /\ pc = "init_connect"
    /\ \E o \in ConnectOutcomes :
          /\ connect(o)
          /\ IF ConnectResult(o) = "ok"
             THEN Goto("init_setpos", 0)
             ELSE Raise(ConnectResult(o))
    /\ UNCHANGED <<clientLocals, wireVars, cfg>>

InitSetPos ==
    /\ pc = "init_setpos"
    /\ SET("POS", 0, "act_check")
    /\ UNCHANGED <<clientLocals, hooks, cfg>>

\* defective variant: the failure is swallowed but the link is kept
InitExcept_no_teardown ==
    /\ pc = "init_except"
    /\ pc' = "idle"
    /\ res' = "init_failed"
    /\ elapsed' = 0
    /\ UNCHANGED <<op, clientLocals, noop, hooks, wireVars, cfg, connVars>>

\* except Exception: print(...); self.disconnect()
InitExcept ==
    /\ pc = "init_except"
    /\ disconnect
    /\ pc' = "idle"
    /\ res' = "init_failed"
    /\ elapsed' = 0
    /\ UNCHANGED <<op, clientLocals, noop, hooks, wireVars, cfg>>

----------------------------------------------------------------------------
(* Public operations called by the owner of the client *)

\* a public operation o begins: what the previous one left is forgotten
Begin(o) ==
    /\ pc = "idle"
    /\ op' = o
    /\ got' = 0
    /\ gotFresh' = TRUE
    /\ lastRead' = NoRead
    /\ polls' = NoPolls
    /\ lastFrame' = NoFrame
    /\ elapsed' = 0
    /\ moved' = IF o = "GET" THEN moved ELSE NoMove
    /\ twice' = (o = "reset" /\ op = "reset" /\ res = "ok")
    /\ UNCHANGED <<dev, cfg>>

Connect ==
    /\ Begin("connect")
    /\ \E o \in ConnectOutcomes :
          /\ connect(o)
          /\ res' = ConnectResult(o)
    /\ noop' = (sock # "None")
    /\ UNCHANGED <<pc, args>>

Disconnect ==
    /\ Begin("disconnect")
    /\ disconnect
    /\ res' = "ok"
    /\ noop' = (sock = "None")
    /\ UNCHANGED <<pc, args, hooks>>

Entry(o) == CASE o = "SET" -> "set"
              [] o = "GET" -> "get"
              [] o = "reset" -> "rst_set"
              [] o = "activate" -> "act_check"

\* SET, GET (get_pos is GET("POS")), reset or activate is called
Call ==
    \E o \in {"SET", "GET", "reset", "activate"} :
        /\ Begin(o)
        /\ pc' = Entry(o)
        /\ res' = "none"
        /\ noop' = FALSE
        /\ UNCHANGED <<args, connVars, hooks>>

MoveCalled(o, position, block) ==
    /\ Begin(o)
    /\ pc' = "mv_spe"
    /\ res' = "none"
    /\ args' = [position |-> position, block |-> block]
    /\ noop' = FALSE
    /\ UNCHANGED <<connVars, hooks>>

MoveCall == \E position \in Positions, block \in BOOLEAN : MoveCalled("move", position, block)
Grip == \E block \in BOOLEAN : MoveCalled("grip", 255, block)
Release == \E block \in BOOLEAN : MoveCalled("release", 0, block)

SetVars == {"POS", "SPE", "FOR", "ACT", "GTO"}
GetVars == {"ACT", "STA", "PRE", "OBJ", "POS"}

SetOp ==
    /\ pc = "set"
    /\ \E var \in SetVars, val \in Inputs :
          SET(var, val, "idle")
    /\ UNCHANGED <<clientLocals, hooks, cfg>>

RetGet(v, dt) == Leave("ok")

GetOp ==
    /\ pc = "get"
    /\ \E var \in GetVars : GET(var, RetGet(got', 0))
    /\ UNCHANGED <<args, noop, moved, twice, hooks, cfg>>

----------------------------------------------------------------------------
(* ActivationController: reset() *)

RstSet ==
    /\ pc = "rst_set"
    /\ SET("ACT", 0, "rst_getact")
    /\ UNCHANGED <<clientLocals, hooks, cfg>>

\* self.GET("ACT") != 0 or ...
AfterRstAct(v, dt) == IF v # 0 THEN Goto("rst_again", 0) ELSE Goto("rst_getsta", 0)

RstGetAct ==
    /\ pc = "rst_getact"
    /\ GET("ACT", AfterRstAct(got', 0))
    /\ UNCHANGED <<args, noop, moved, twice, hooks, cfg>>

\* defective variant: reset() returns without looking at the status
AfterRstSta_unchecked(v, dt) ==
    IF op = "reset" THEN Leave("ok") ELSE Goto("act_set", 0)

\* ... or self.GET("STA") != 0; when both read 0 reset() sleeps 0.5 s
\* and returns, to its caller activate() or to the owner
AfterRstSta(v, dt) ==
    IF v # 0 THEN Goto("rst_again", 0)
    ELSE IF op = "reset" THEN Leave("ok")
    ELSE Goto("act_set", 0)

RstGetSta ==
    /\ pc = "rst_getsta"
    /\ GET("STA", AfterRstSta(got', 0))
    /\ UNCHANGED <<args, noop, moved, twice, hooks, cfg>>

\* the loop body: self.SET("ACT", 0); time.sleep(0.1)
RstAgain ==
    /\ pc = "rst_again"
    /\ SET("ACT", 0, "rst_getact")
    /\ UNCHANGED <<clientLocals, hooks, cfg>>

----------------------------------------------------------------------------
(* ActivationController: activate() *)

\* defective variant: activate() resets even an active device
AfterActCheck_always_resets(v, dt) == Goto("rst_set", 0)

\* if self.GET("STA") == 3: return
AfterActCheck(v, dt) == IF v = 3 THEN Leave("ok") ELSE Goto("rst_set", 0)

ActCheck ==
    /\ pc = "act_check"
    /\ GET("STA", AfterActCheck(got', 0))
    /\ UNCHANGED <<args, noop, moved, twice, hooks, cfg>>

\* self.SET("ACT", 1); time.sleep(1.0); start_time = time.time()
ActSet ==
    /\ pc = "act_set"
    /\ SET("ACT", 1, "act_poll")
    /\ UNCHANGED <<clientLocals, hooks, cfg>>

\* defective variant: the deadline is tested with >=
TimedOut_at_deadline(t) == t >= DEADLINE

\* time.time() - start_time > 10
TimedOut(t) == t > DEADLINE

\* defective variant: a single poll, then the loop gives up
AfterActPoll_single_poll(v, dt) ==
    IF v = 3 THEN Leave("ok") ELSE RaiseAt("ActivationTimeout", elapsed + dt)

\* defective variant: the poll loop has no deadline
AfterActPoll_no_deadline(v, dt) ==
    IF v = 3 THEN Leave("ok") ELSE Goto("act_poll", 0)

\* v is the status read, dt the time the GET took (its pacing delay and
\* the wait in recv):
\* while self.GET("STA") != 3:
\*     if <timed out>: raise TimeoutError(...)
\*     time.sleep(0.1)
\* time.sleep(0.5)
AfterActPoll(v, dt) ==
    IF v = 3 THEN Leave("ok")
    ELSE IF TimedOut(elapsed + dt) THEN RaiseAt("ActivationTimeout", elapsed + dt)
    ELSE Goto("act_poll", dt + POLL)

ActPoll ==
    /\ pc = "act_poll"
    /\ \E lat \in Latencies : GET("STA", AfterActPoll(got', PACING + lat))
    /\ UNCHANGED <<args, noop, moved, twice, hooks, cfg>>

----------------------------------------------------------------------------
(* MotionController: move(), grip(), release() *)

\* move()'s locals die when it returns or raises
MoveLocals == args' = IF pc' \in {"idle", "init_except"} THEN NoArgs ELSE args

\* if speed is not None: speed = min(max(speed, 0), 255); self.SET("SPE", speed)
MvSpe ==
    /\ pc = "mv_spe"
    /\ \/ /\ Goto("mv_for", 0)
          /\ UNCHANGED <<connVars, wireVars>>
       \/ /\ op = "move"
          /\ \E speed \in Inputs : SET("SPE", Clamp(speed), "mv_for")
    /\ MoveLocals
    /\ UNCHANGED <<got, gotFresh, lastRead, polls, noop, moved, twice, hooks, cfg>>

\* if force is not None: force = min(max(force, 0), 255); self.SET("FOR", force)
MvFor ==
    /\ pc = "mv_for"
    /\ \/ /\ Goto("mv_pos", 0)
          /\ UNCHANGED <<connVars, wireVars>>
       \/ /\ op = "move"
          /\ \E force \in Inputs : SET("FOR", Clamp(force), "mv_pos")
    /\ MoveLocals
    /\ UNCHANGED <<got, gotFresh, lastRead, polls, noop, moved, twice, hooks, cfg>>

\* position = min(max(position, 0), 255); self.SET("POS", position)
MvPos ==
    /\ pc = "mv_pos"
    /\ SET("POS", Clamp(args.position), "mv_gto")
    /\ MoveLocals
    /\ UNCHANGED <<got, gotFresh, lastRead, polls, noop, moved, twice, hooks, cfg>>

\* self.SET("GTO", 1)
MvGto ==
    /\ pc = "mv_gto"
    /\ SET("GTO", 1, "mv_pre")
    /\ MoveLocals
    /\ UNCHANGED <<got, gotFresh, lastRead, polls, noop, moved, twice, hooks, cfg>>

\* defective variant: the target's echo is read once and not compared
AfterMvPre_unconfirmed(v, dt) ==
    IF args.block THEN Goto("mv_obj", 0) ELSE Goto("mv_ret", 0)

\* defective variant: the move never waits for completion
AfterMvPre_never_blocks(v, dt) ==
    IF v # Clamp(args.position) THEN Goto("mv_pre", 0) ELSE Goto("mv_ret", 0)

\* while self.GET("PRE") != position: sleep(0.01); then "if block:"
AfterMvPre(v, dt) ==
    IF v # Clamp(args.position) THEN Goto("mv_pre", 0)
    ELSE IF args.block THEN Goto("mv_obj", 0)
    ELSE Goto("mv_ret", 0)

MvPre ==
    /\ pc = "mv_pre"
    /\ GET("PRE", AfterMvPre(got', 0))
    /\ MoveLocals
    /\ UNCHANGED <<noop, moved, twice, hooks, cfg>>

\* defective variant: the motion is polled once, whatever it reads
AfterMvObj_single_poll(v, dt) == Goto("mv_ret", 0)

\* while self.GET("OBJ") == 0: sleep(0.01)
AfterMvObj(v, dt) == IF v = 0 THEN Goto("mv_obj", 0) ELSE Goto("mv_ret", 0)

MvObj ==
    /\ pc = "mv_obj"
    /\ GET("OBJ", AfterMvObj(got', 0))
    /\ MoveLocals
    /\ UNCHANGED <<noop, moved, twice, hooks, cfg>>

\* return self.GET("POS")
AfterMvRet(v, dt) == Leave("ok")

MvRet ==
    /\ pc = "mv_ret"
    /\ GET("POS", AfterMvRet(got', 0))
    /\ moved' = IF res' = "ok" /\ args.block THEN <<Clamp(args.position)>> ELSE NoMove
    /\ MoveLocals
    /\ UNCHANGED <<noop, twice, hooks, cfg>>

----------------------------------------------------------------------------
(* The end of the process *)

\* the interpreter exits (main returned, sys.exit, or an exception nobody
\* caught): the functions registered with atexit run
Exit ==
    /\ Begin("exit")
    /\ pc' = "exited"
    /\ res' = IF hooks /\ sock # "None" THEN "released" ELSE "none"
    /\ IF hooks THEN disconnect ELSE UNCHANGED connVars
    /\ noop' = FALSE
    /\ UNCHANGED <<args, hooks>>

\* the process is ended from outside (a signal Python does not handle,
\* os._exit, a fatal interpreter error): atexit functions do not run
\* (taken between two operations; a kill inside one leaves the same socket)
Kill ==
    /\ Begin("kill")
    /\ pc' = "killed"
    /\ res' = "none"
    /\ noop' = FALSE
    /\ UNCHANGED <<args, connVars, hooks>>

----------------------------------------------------------------------------
(* Steps of the device and of the network *)

Running == pc \notin Terminal

\* ACT = 1 takes the status from Reset to Activating
DevActivating ==
    /\ Running
    /\ dev.act = 1 /\ dev.sta = 0
    /\ dev' = [dev EXCEPT !.sta = 1]
    /\ UNCHANGED <<ctlVars, clientLocals, connVars, hooks, lastFrame, cfg>>

\* the activation completes
DevActive ==
    /\ Running
    /\ cfg # "slow"
    /\ dev.act = 1 /\ dev.sta = 1
    /\ dev' = [dev EXCEPT !.sta = 3]
    /\ UNCHANGED <<ctlVars, clientLocals, connVars, hooks, lastFrame, cfg>>

\* ACT = 0 takes the status back to Reset
DevReset ==
    /\ Running
    /\ cfg = "lagging"
    /\ dev.act = 0 /\ dev.sta # 0
    /\ dev' = [dev EXCEPT !.sta = 0]
    /\ UNCHANGED <<ctlVars, clientLocals, connVars, hooks, lastFrame, cfg>>

\* the fingers reach the requested position
DevMove ==
    /\ Running
    /\ Moving(dev)
    /\ dev' = [dev EXCEPT !.pos = dev.pre]
    /\ UNCHANGED <<ctlVars, clientLocals, connVars, hooks, lastFrame, cfg>>

\* the fingers stop on an object before the requested position
DevObstructed ==
    /\ Running
    /\ cfg = "gripping"
    /\ Moving(dev)
    /\ dev' = [dev EXCEPT !.blk = TRUE]
    /\ UNCHANGED <<ctlVars, clientLocals, connVars, hooks, lastFrame, cfg>>

\* the device closes its end of the connection
PeerClose ==
    /\ Running
    /\ cfg = "lossy"
    /\ peer = "up"
    /\ peer' = "closed"
    /\ UNCHANGED <<ctlVars, clientLocals, sock, nconn, ncloses, rx, hooks,
                   wireVars, cfg>>

----------------------------------------------------------------------------

ClientStep ==
    \/ Construct \/ InitConnect \/ InitSetPos \/ InitExcept
    \/ Connect \/ Disconnect \/ Call \/ MoveCall \/ Grip \/ Release
    \/ SetOp \/ GetOp
    \/ RstSet \/ RstGetAct \/ RstGetSta \/ RstAgain
    \/ ActCheck \/ ActSet \/ ActPoll
    \/ MvSpe \/ MvFor \/ MvPos \/ MvGto \/ MvPre \/ MvObj \/ MvRet
    \/ Exit

DeviceStep ==
    \/ DevActivating \/ DevActive \/ DevReset \/ DevMove \/ DevObstructed
    \/ PeerClose

Next == ClientStep \/ DeviceStep \/ Kill

Spec == Init /\ [][Next]_vars

\* the devices whose every answer is a well-formed line that arrives
\* within the read timeout, if it arrives at all
Prompt == Kinds \ {"late", "garbled"}

\* against such a device: the single thread of the client keeps running,
\* and the fingers of a device that is moving arrive
PromptInit == Init /\ cfg \in Prompt

FairSpec ==
    PromptInit /\ [][Next]_vars /\ WF_vars(ClientStep) /\ WF_vars(DevMove)

----------------------------------------------------------------------------
(* Properties *)

Motions == {"move", "grip", "release"}
Ranged == {"POS", "SPE", "FOR"}

\* C1 as stated: every SET frame for POS, SPE or FOR that the client
\* transmits, whatever public operation sent it, carries a value in [0,255].
C1_EveryFrameInRange ==
    (lastFrame.cmd = "SET" /\ lastFrame.var \in Ranged) => lastFrame.val \in 0..255

\* C1 (amended): every SET frame for POS, SPE or FOR transmitted by move,
\* grip, release or the auto-initialization carries a value in [0,255];
\* the public SET transmits the caller's value as given.
C1_MotionFramesInRange ==
    (op \in Motions \cup {"init"} /\ lastFrame.cmd = "SET" /\ lastFrame.var \in Ranged)
        => lastFrame.val \in 0..255

\* move() was given 400 and has transmitted SET POS 255
C1_Witness ==
    op = "move" /\ args.position = 400 /\ lastFrame = SetFrame("POS", 255)

\* a blocking move against the fault-free device has returned p
MoveReturned == op \in Motions /\ pc = "idle" /\ res = "ok" /\ moved # NoMove
\* ... and the position has been queried since
PosQueried ==
    op = "GET" /\ pc = "idle" /\ res = "ok" /\ lastFrame = GetFrame("POS") /\ moved # NoMove

\* C2: against the fault-free device a blocking move(p) by a connected
\* client terminates and returns p, the fingers are at p, and a position
\* query that follows reads p.
C2_MoveReachesTarget ==
    /\ [](cfg = "ideal" /\ MoveReturned => got = moved[1] /\ dev.pos = moved[1])
    /\ [](cfg = "ideal" /\ PosQueried => got = moved[1])
    /\ (cfg = "ideal" /\ pc = "mv_spe" /\ sock = "open" /\ args.block)
          ~> MoveReturned

\* move(100) returned 100 and get_pos() then read 100
C2_Witness == cfg = "ideal" /\ PosQueried /\ moved = <<100>> /\ got = 100

\* the device answers every query with a well-formed line, in time
Answering == cfg \in {"ideal", "noreset", "slow", "gripping", "lagging"}
Ended == pc \in {"idle", "init_except"}

\* C3 as stated: against a device that answers every query every
\* activate() terminates, its reset phase included.
C3_ActivateTerminates == (Answering /\ pc = "act_check") ~> Ended

\* C3 (amended): against a device that answers every query, activate()
\* terminates once its reset phase has completed: the STA poll loop entered
\* after SET ACT 1 ends, with a return or with ActivationTimeout.  The
\* reset phase has no deadline.
C3_PollLoopTerminates ==
    (Answering /\ pc = "act_poll") ~> (Ended /\ res \in {"ok", "ActivationTimeout"})

\* activate() gave up on a device that stayed short of Active
C3_Witness == op = "activate" /\ pc = "idle" /\ res = "ActivationTimeout"

\* C4 as stated: the poll loop goes on only while less than 10 s have
\* elapsed at its deadline test, and ActivationTimeout is raised only when
\* at least 10 s have.
C4_TimeoutAtTenSeconds ==
    /\ (pc = "act_poll" /\ elapsed > 0) => elapsed - POLL < DEADLINE
    /\ res = "ActivationTimeout" => elapsed >= DEADLINE

\* C4 (amended): ActivationTimeout is raised at the first failed STA poll
\* that ends more than 10 s after the poll loop began, and never at 10 s
\* or before; a poll that ends exactly at 10 s is followed by another poll.
C4_TimeoutAfterTenSeconds ==
    /\ (pc = "act_poll" /\ elapsed > 0) => elapsed - POLL <= DEADLINE
    /\ res = "ActivationTimeout" => elapsed > DEADLINE

\* the never-active device made activate() time out
C4_Witness ==
    cfg = "slow" /\ op = "activate" /\ res = "ActivationTimeout" /\ elapsed = DEADLINE + 1

\* C5: when the status read that opens activate() is Active, activate()
\* returns at once: no frame follows that GET STA, the device and the
\* connection are as they were.
C5_ActivateOnActive ==
    [][(pc = "act_check" /\ got' = 3 /\ lastFrame' = GetFrame("STA"))
          => (pc' = "idle" /\ res' = "ok" /\ dev' = dev /\ sock' = sock /\ peer' = peer)]_vars

\* a device that cannot become Active again was found Active
C5_Witness ==
    cfg = "slow" /\ op = "activate" /\ pc = "idle" /\ res = "ok" /\ got = 3
        /\ lastFrame = GetFrame("STA")

\* C6: the value a GET returns is parsed from the device's answer to that
\* same GET, never from the answer to an earlier one.
C6_GetReadsItsOwnAnswer == gotFresh

\* C7: construction with auto-initialize runs connect, SET POS 0 and
\* activate in that order and never fails: it ends Connected with the
\* status observed Active, or Disconnected with the failure swallowed.
C7_AutoInitSwallows ==
    /\ (op = "init" /\ pc = "init_setpos") => (sock = "open" /\ lastFrame = NoFrame)
    /\ (op = "init" /\ pc = "act_check") => (sock = "open" /\ lastFrame = SetFrame("POS", 0))
    /\ (op = "init" /\ pc = "idle") =>
          \/ sock = "open" /\ res = "ok" /\ got = 3 /\ lastFrame = GetFrame("STA")
          \/ sock = "None" /\ res = "init_failed"

\* the connection was made, a later step failed, and it was torn down
C7_Witness ==
    op = "init" /\ pc = "idle" /\ res = "init_failed" /\ hooks /\ sock = "None"
        /\ ncloses = 1

C9_OneHandshake == nconn = (IF sock = "open" THEN 1 ELSE 0)

\* connect() was called on a connected client
C9_Witness == op = "connect" /\ noop /\ res = "ok" /\ sock = "open" /\ nconn = 1

\* C10: disconnect() never fails and leaves the client Disconnected with
\* the handle cleared; the socket it held has been closed once, and a
\* disconnect() that finds no handle closes nothing.
C10_DisconnectIdempotent ==
    (op = "disconnect" /\ pc = "idle") =>
        /\ sock = "None" /\ res = "ok" /\ nconn = 0 /\ peer = "none" /\ rx = << >>
        /\ ncloses <= 1

\* a second disconnect() in a row
C10_Witness == op = "disconnect" /\ noop /\ res = "ok" /\ ncloses = 1 /\ hooks

\* inside reset(), called by the owner or by activate()
RstPolls == {"rst_getact", "rst_getsta"}
RstPcs == RstPolls \cup {"rst_set", "rst_again"}
\* the step ends a reset() normally
RstReturns == pc \in RstPcs /\ (pc' = "act_set" \/ (pc' = "idle" /\ res' = "ok"))

Activations == {"activate", "init"}
\* the latest value of the polling loop under way
LastSeen == polls.seen[Len(polls.seen)]

\* C12: a status poll of activate() that reads Active ends activate()
\* normally, and ActivationTimeout is not raised within the first polls of
\* the loop: against STA reads 0, 1, 3 on successive polls after SET ACT 1
\* activate() returns without error at the third poll.
C12_ObservesActivation ==
    /\ [][(pc \in {"act_check", "act_poll"} /\ polls' # polls /\ polls'.seen[Len(polls'.seen)] = 3)
             => (pc' = "idle" /\ res' = "ok" /\ got' = 3)]_vars
    /\ [](op \in Activations /\ res = "ActivationTimeout"
             => polls.n = MaxPolls /\ LastSeen # 3)

\* the polls after SET ACT 1 read 0, 1, 3 and activate() returned
C12_Witness ==
    op = "activate" /\ pc = "idle" /\ res = "ok" /\ polls = [seen |-> <<0, 1, 3>>, n |-> 3]

\* C13: a blocking move polls OBJ again after every poll that reads
\* Moving (0) and reads the final position only after a poll that reads
\* something else; GET POS is sent once, after that poll, and ends the
\* move.  Against OBJ reads 0, 0, 2 there are exactly three OBJ polls.
C13_BlocksUntilStopped ==
    /\ [][(pc = "mv_obj" /\ polls' # polls)
             => (pc' = IF got' = 0 THEN "mv_obj" ELSE "mv_ret")]_vars
    /\ [](op \in Motions /\ pc = "mv_obj" /\ lastFrame = GetFrame("OBJ")
             => polls.seen = <<0>>)
    /\ [](op \in Motions /\ pc = "mv_ret" /\ args.block
             => lastFrame = GetFrame("OBJ") /\ LastSeen # 0
                /\ polls.seen \in {<<LastSeen>>, <<0, LastSeen>>})
    /\ [](op \in Motions /\ lastFrame = GetFrame("POS") => pc = "idle")
    /\ [](op \in Motions /\ pc = "idle" /\ res = "ok"
             => lastFrame = GetFrame("POS") /\ polls.n = 1)

\* grip() has read OBJ 0, 0, 2 and is about to read the final position
C13_Witness ==
    op = "grip" /\ args.block /\ pc = "mv_ret" /\ polls = [seen |-> <<0, 2>>, n |-> 3]

\* the position move(0), move(255) or move(p) with p in range is called
\* with, whichever is nearest to the position of the running move()
Nearest == IF args.position < 0 THEN 0 ELSE IF args.position > 255 THEN 255
           ELSE args.position

\* C14: move(position) does what move(Nearest) does: it sends SET POS
\* with that value, waits for that value in PRE, and returns what GET POS
\* then reads; so move(-5) and move(0), move(400) and move(255) send the
\* same frames, await the same echo and return the same result.
C14_ClampedLikeNearest ==
    /\ [][(op \in Motions /\ pc = "mv_pos" /\ lastFrame' # lastFrame)
             => lastFrame' = SetFrame("POS", Nearest)]_vars
    /\ [][(op \in Motions /\ pc = "mv_pre" /\ pc' \in {"mv_obj", "mv_ret"})
             => (got' = Nearest /\ lastFrame' = GetFrame("PRE"))]_vars
    /\ [][(op \in Motions /\ pc = "mv_ret" /\ pc' = "idle" /\ res' = "ok")
             => (lastFrame' = GetFrame("POS") /\ lastRead'.kind = "line"
                 /\ got' = lastRead'.toks[2].n
                 /\ moved' \in {NoMove, <<Nearest>>})]_vars
    /\ [](cfg = "ideal" /\ op \in Motions /\ pc = "mv_ret" /\ args.block
             => dev.pos = Nearest)

\* move(-5) has sent SET POS 0 and has seen PRE = 0, as move(0) does
C14_Witness ==
    op = "move" /\ args.position = -5 /\ pc = "mv_ret" /\ got = 0 /\ dev.pre = 0
        /\ lastFrame = GetFrame("PRE")

\* the operation ended with the failure e (swallowed by __init__ during
\* auto-initialization)
FailedWith(e) ==
    \/ pc \in {"idle", "init_except"} /\ res = e
    \/ op = "init" /\ pc = "idle" /\ res = "init_failed"

\* C15: a GET whose response line has fewer than two tokens, or a second
\* token that is not an integer, fails with MalformedResponse (ValueError);
\* any other line makes GET return the integer its second token spells.
C15_MalformedResponse ==
    lastRead.kind = "line" =>
        IF Len(lastRead.toks) < 2 \/ ~lastRead.toks[2].isInt
        THEN FailedWith("ValueError")
        ELSE got = lastRead.toks[2].n /\ res # "ValueError"

\* a response of a single token made GET fail
C15_Witness ==
    op = "GET" /\ lastRead = [kind |-> "line", toks |-> <<WordTok>>] /\ res = "ValueError"

\* the ways a read can fail, and a line GET cannot parse
ReadFailures == {"ResponseTimeout", "ConnectionError"}
Unparsed ==
    lastRead.kind = "line" /\ (Len(lastRead.toks) < 2 \/ ~lastRead.toks[2].isInt)
\* the failure the latest read of the operation detected, "none" if none
Detected ==
    IF lastRead.kind \in ReadFailures THEN lastRead.kind
    ELSE IF Unparsed THEN "ValueError" ELSE "none"

\* C16: a failure detected inside move(), grip(), release(), reset() or
\* activate() ends the operation there: the failure is the outcome the
\* caller gets, the frame whose answer failed is the last one sent, and
\* nothing is retried.  (__init__, as activate()'s caller, swallows it.)
C16_FailuresPropagate ==
    /\ (Detected # "none" /\ op # "init")
          => (pc = "idle" /\ res = Detected /\ lastFrame.cmd = "GET")
    /\ (Detected # "none" /\ op = "init")
          => (FailedWith(Detected) /\ lastFrame.cmd = "GET")
    /\ res \in {"ActivationTimeout", "ConnectionError", "OSError"}
          => pc \in {"idle", "init_except"}

\* a read timed out inside move() and move() ended with ResponseTimeout
C16_Witness ==
    op = "move" /\ pc = "idle" /\ res = "ResponseTimeout"
        /\ lastRead.kind = "ResponseTimeout" /\ lastFrame = GetFrame("OBJ")

\* the positions of an operation that writes a frame on its next step;
\* move() at "mv_spe" and "mv_for" writes one only if the speed or the
\* force was given
Writing == {"set", "get", "init_setpos", "rst_set", "rst_getact", "rst_getsta",
            "rst_again", "act_check", "act_set", "act_poll", "mv_pos",
            "mv_gto", "mv_pre", "mv_obj", "mv_ret"}
MayWrite == {"mv_spe", "mv_for"}

\* C17: a step an operation takes while the handle is cleared writes no
\* frame, reaches no device register, leaves the handle cleared and, where
\* the step is a SET or a GET, ends the operation with ConnectionFailure;
\* nor is a frame written on a handle that never connected.
C17_NothingSentDisconnected ==
    /\ [][(sock = "None" /\ pc \in Writing \cup MayWrite /\ pc' # pc)
            => /\ lastFrame' = lastFrame /\ dev' = dev /\ rx' = rx
               /\ sock' = "None" /\ peer' = peer
               /\ (pc \in Writing \/ pc' \in {"idle", "init_except"})
                     => (pc' \in {"idle", "init_except"}
                           /\ res' = "ConnectionError")]_vars
    /\ [][(sock = "unconn" /\ pc \in Writing \cup MayWrite /\ pc' # pc)
            => (lastFrame' = lastFrame /\ dev' = dev /\ sock' = sock)]_vars
    /\ [](sock = "None" /\ pc \in Writing \cup MayWrite => lastFrame = NoFrame)

\* move() called after disconnect() has failed at its SET POS
C17_Witness ==
    op = "move" /\ pc = "idle" /\ res = "ConnectionError" /\ sock = "None"
        /\ ncloses > 0 /\ lastFrame = NoFrame /\ lastRead = NoRead

\* frame g may be the first frame move() writes after frame f, given the
\* value v its latest GET returned
MayFollow(f, g, v) ==
    CASE f = NoFrame -> g.cmd = "SET" /\ g.var \in {"SPE", "FOR", "POS"}
      [] f.cmd = "SET" /\ f.var = "SPE" -> g.cmd = "SET" /\ g.var \in {"FOR", "POS"}
      [] f.cmd = "SET" /\ f.var = "FOR" -> g.cmd = "SET" /\ g.var = "POS"
      [] f.cmd = "SET" /\ f.var = "POS" -> g = SetFrame("GTO", 1)
      [] f.cmd = "SET" /\ f.var = "GTO" -> g = GetFrame("PRE")
      [] f = GetFrame("PRE") ->
            /\ v = Nearest
            /\ g = IF args.block THEN GetFrame("OBJ") ELSE GetFrame("POS")
      [] f = GetFrame("OBJ") -> v # 0 /\ g = GetFrame("POS")
      [] OTHER -> FALSE

\* C18: the frames of move(), grip() and release() follow one another in
\* the order SET SPE, SET FOR (each only if given), SET POS with the
\* clamped position, SET GTO 1, GET PRE repeated until it reads the clamped
\* position, GET OBJ repeated only if block, and one GET POS, which is the
\* last frame and whose value is returned.
C18_MoveFrameOrder ==
    /\ [][(op \in Motions /\ pc # "idle" /\ lastFrame' # lastFrame)
            => /\ MayFollow(lastFrame, lastFrame', got)
               /\ lastFrame'.cmd = "SET" /\ lastFrame'.var = "POS"
                     => lastFrame'.val = Nearest
               /\ lastFrame'.cmd = "SET" /\ lastFrame'.var \in {"SPE", "FOR"}
                     => lastFrame'.val \in 0..255]_vars
    /\ [][(op \in Motions /\ pc # "idle" /\ pc' = "idle" /\ res' = "ok")
            => /\ lastFrame # GetFrame("POS") /\ lastFrame' = GetFrame("POS")
               /\ lastRead'.kind = "line" /\ got' = lastRead'.toks[2].n]_vars
    /\ [](op \in Motions /\ lastFrame = GetFrame("POS") => pc = "idle")
    /\ [](op \in Motions /\ lastFrame = GetFrame("OBJ") => args.block \/ pc = "idle")

\* a non-blocking move to 255 has returned what its one GET POS read
C18_Witness ==
    op = "move" /\ pc = "idle" /\ res = "ok" /\ lastFrame = GetFrame("POS")
        /\ moved = NoMove /\ dev.pre = 255 /\ got = dev.pos /\ polls.n = 1

\* C19: activate() writes SET ACT 1 only when the reset loop has read
\* ACT = 0 and STA = 0, and returns normally only from a STA read of 3
\* made while the device's status is Active.
C19_SuccessMeansActive ==
    /\ [][(op \in Activations /\ lastFrame' = SetFrame("ACT", 1)
               /\ lastFrame # lastFrame')
            => (pc = "act_set" /\ lastFrame = GetFrame("STA") /\ got = 0)]_vars
    /\ [][(op \in Activations /\ pc \in {"act_check", "act_poll"}
               /\ pc' = "idle" /\ res' = "ok")
            => (lastFrame' = GetFrame("STA") /\ got' = 3 /\ dev.sta = 3)]_vars

\* C20: after a connect() that failed, for whatever reason, the handle is
\* cleared; between two operations the handle is set only on a connection
\* whose handshake succeeded; and connect() is a no-op only on such a
\* connection.
C20_FailedConnectDisconnected ==
    /\ (op = "connect" /\ pc = "idle" /\ res # "ok") => sock = "None"
    /\ (pc = "idle" /\ sock # "None") => (sock = "open" /\ nconn > 0)
    /\ (op = "connect" /\ pc = "idle" /\ noop) => sock = "open"

====
